---- MODULE Spec2Model ----
(***************************************************************************)
(* Model of the sherpa installer core: the package factory                 *)
(* (packages/factory.py), the shared installer base (packages/base.py),    *)
(* the concrete installers for starship, pyenv and nvm, and the command   *)
(* handlers and main of sherpa.py.                                         *)
(*                                                                         *)
(* Spec runs commands and factory calls, SpecInstaller calls the methods   *)
(* of one installer object, SpecQueries asks the catalog queries,          *)
(* SpecFactory uses the factory while the packages directory is edited,    *)
(* SpecPlatform applies the platform functions on many hosts, and          *)
(* SpecConcurrent interleaves the integration setups of several processes. *)
(*                                                                         *)
(* Python values are modelled by strings: the results "True", "False" and  *)
(* "None", and a raised exception by the name of its class.                *)
(***************************************************************************)
EXTENDS Integers, Sequences, FiniteSets, TLC

VARIABLES
    descriptors,     \* the package.meta.json files below packages/
    host,            \* platform.system(), /etc/os-release, $SHELL
    world,           \* search path, home directory files, config links
    registry,        \* InstallerFactory._package_registry
    metadataCache,   \* InstallerFactory._metadata_cache
    inst,            \* the installer object a caller holds, or NoInst
    last,            \* the operation that ran last and what it did
    nops,            \* operations run so far
    exitCode,        \* what main returned for the last command, or NoExit
    procs            \* the sherpa processes that run side by side on one
                     \* home directory: where each stands in its setup

vars ==
    <<descriptors, host, world, registry, metadataCache, inst, last, nops,
      exitCode, procs>>

----------------------------------------------------------------------------
(* Bounds *)

\* operations one run of Spec performs
MaxOps == 2

\* constructor and method calls one run of SpecInstaller performs
MaxCalls == 4

\* sherpa processes that SpecConcurrent runs side by side
NumProcs == 2

----------------------------------------------------------------------------
(* Python values *)

RetTrue  == "True"
RetFalse == "False"
RetNone  == "None"

Exceptions ==
    {"ValueError", "ImportError", "AttributeError", "RuntimeError",
     "TypeError", "FileNotFoundError", "KeyError", "JSONDecodeError"}

IsRaise(r) == r \in Exceptions

\* Python truthiness of a method result
Truthy(r) == r = RetTrue

NoInst == [cls |-> "none", package_name |-> "", attrs |-> {}]

\* no process besides the one the model follows
NoProcs == <<>>

----------------------------------------------------------------------------
(* The package tree of the repository *)

PackageIds == {"nvm", "pyenv", "starship"}

\* an id no descriptor carries
UnknownId == "ghost"

\* sorted() on package ids: the ids in ascending string order
IdOrder == <<"ghost", "nvm", "pyenv", "starship">>

\* directory holding each package's installer.py, config/ and descriptor
PackageDir ==
    [p \in PackageIds |->
        CASE p = "nvm"      -> <<"packages", "core", "nvm">>
          [] p = "pyenv"    -> <<"packages", "pyenv">>
          [] p = "starship" -> <<"packages", "starship">>]

\* the class each installer.py defines
ModuleClass ==
    [p \in PackageIds |->
        CASE p = "nvm"      -> "NvmInstaller"
          [] p = "pyenv"    -> "PyenvInstaller"
          [] p = "starship" -> "StarshipInstaller"]

InstallerClasses == {ModuleClass[p] : p \in PackageIds}

\* the names a descriptor can ask an installer module for: its installer
\* class, the abstract BaseInstaller it imports, and its logger object
ModuleNames ==
    [p \in PackageIds |-> {ModuleClass[p], "BaseInstaller", "logger"}]

\* number of positional parameters (besides self) of the __init__ that a
\* call of the class reaches; NvmInstaller defines none and inherits
\* BaseInstaller.__init__(self, package_name)
BaseInitParams == 1

CtorParams ==
    [c \in InstallerClasses |->
        CASE c = "NvmInstaller"      -> BaseInitParams
          [] c = "PyenvInstaller"    -> 1
          [] c = "StarshipInstaller" -> 1]

\* attributes the subclass __init__ sets after super().__init__
CtorAttrs ==
    [c \in InstallerClasses |->
        CASE c = "NvmInstaller"      -> {}
          [] c = "PyenvInstaller"    -> {"binary_name", "pyenv_root"}
          [] c = "StarshipInstaller" -> {"binary_name"}]

\* the methods each class defines or inherits from BaseInstaller
BaseMethods ==
    {"install_software", "uninstall_software", "is_software_installed",
     "install_config", "uninstall_config", "is_config_installed"}

ClassMethods ==
    [c \in InstallerClasses |->
        CASE c = "NvmInstaller"      -> BaseMethods
          [] c = "PyenvInstaller"    ->
                BaseMethods \cup {"setup_integration", "uninstall_integration"}
          [] c = "StarshipInstaller" ->
                BaseMethods \cup {"setup_integration"}]

\* InstallerFactory._categories
Categories ==
    {"core", "shell", "terminal", "editors", "runtimes", "git", "containers",
     "k8s", "cloud", "security", "macos", "theme", "data"}

----------------------------------------------------------------------------
(* Host platform *)

\* /etc/os-release is modelled by the set of distribution words it holds,
\* or NoOsRelease when the file is missing
NoOsRelease == {"<missing>"}

Hosts ==
    { [system |-> "linux", machine |-> "x86_64",
       osRelease |-> {"ubuntu"}, shellEnv |-> "bash"],
      [system |-> "linux", machine |-> "x86_64",
       osRelease |-> {"ubuntu"}, shellEnv |-> ""],
      [system |-> "linux", machine |-> "aarch64",
       osRelease |-> NoOsRelease, shellEnv |-> "zsh"],
      [system |-> "darwin", machine |-> "arm64",
       osRelease |-> NoOsRelease, shellEnv |-> ""],
      [system |-> "windows", machine |-> "amd64",
       osRelease |-> NoOsRelease, shellEnv |-> ""] }

\* BaseInstaller._detect_os
_detect_os(h) ==
    IF h.system = "linux"
    THEN IF h.osRelease = NoOsRelease THEN "linux"
         ELSE IF h.osRelease \cap {"ubuntu", "debian"} # {} THEN "debian"
         ELSE IF h.osRelease \cap {"centos", "rhel", "fedora"} # {} THEN "redhat"
         ELSE IF "arch" \in h.osRelease THEN "arch"
         ELSE "linux"
    ELSE IF h.system = "darwin" THEN "macos"
    ELSE IF h.system = "windows" THEN "windows"
    ELSE "unknown"

\* os_map of PackageMetadata.is_supported_on_current_platform
OsMap(s) == IF s = "darwin" THEN "macos" ELSE s

SeqToSet(s) == {s[i] : i \in 1..Len(s)}

\* arch_map of PackageMetadata.is_supported_on_current_platform
ArchMap(a) ==
    IF a \in {"arm64", "aarch64"} THEN "arm64"
    ELSE IF a \in {"x86_64", "amd64"} THEN "x86_64"
    ELSE a

\* is_supported_on_current_platform accepting a package when either list
\* matches
is_supported_on_current_platform_EitherList(m, h) ==
    IF m.supportsOs = <<>> /\ m.supportsArch = <<>> THEN TRUE
    ELSE \/ m.supportsOs = <<>>
         \/ OsMap(h.system) \in SeqToSet(m.supportsOs)
         \/ m.supportsArch = <<>>
         \/ ArchMap(h.machine) \in SeqToSet(m.supportsArch)

\* PackageMetadata.is_supported_on_current_platform
is_supported_on_current_platform(m, h) ==
    IF m.supportsOs = <<>> /\ m.supportsArch = <<>> THEN TRUE
    ELSE LET current_os == OsMap(h.system)
             os_supported ==
                 m.supportsOs = <<>> \/ current_os \in SeqToSet(m.supportsOs)
             current_arch == ArchMap(h.machine)
             arch_supported ==
                 m.supportsArch = <<>> \/ current_arch \in SeqToSet(m.supportsArch)
         IN  os_supported /\ arch_supported

\* _detect_current_shell of StarshipInstaller and PyenvInstaller
_detect_current_shell(h) ==
    IF h.shellEnv \in {"bash", "zsh", "fish"} THEN h.shellEnv
    ELSE IF _detect_os(h) \in {"debian", "redhat", "arch", "linux"} THEN "bash"
    ELSE IF _detect_os(h) = "macos" THEN "zsh"
    ELSE "unknown"

----------------------------------------------------------------------------
(* The machine the installers act on *)

ProfileNames == {".bashrc", ".zshrc", ".bash_profile"}

\* content of a profile that does not exist
NoFile == <<"<absent>">>

LnUser         == "alias ll='ls -l'"
LnStarComment  == "# Starship prompt"
LnStarBash     == "eval \"$(starship init bash)\""
LnStarZsh      == "eval \"$(starship init zsh)\""
LnPyenvComment == "# Pyenv configuration"
LnPyenvRoot    == "export PYENV_ROOT=\"$HOME/.pyenv\""
LnPyenvPath    == "export PATH=\"$PYENV_ROOT/bin:$PATH\""
LnPyenvEval    == "eval \"$(pyenv init -)\""
LnNvmComment   == "# nvm"
LnNvmDir       == "export NVM_DIR=\"$HOME/.nvm\""
LnNvmLoad      == "[ -s \"$NVM_DIR/nvm.sh\" ] && \\. \"$NVM_DIR/nvm.sh\""
LnNvmCompl     == "[ -s \"$NVM_DIR/bash_completion\" ] && \\. \"$NVM_DIR/bash_completion\""

\* the sentinel substrings a line contains
SentinelsIn(line) ==
    CASE line = LnStarBash  -> {LnStarBash}
      [] line = LnStarZsh   -> {LnStarZsh}
      [] line = LnPyenvEval -> {"pyenv init"}
      [] line = LnNvmDir    -> {"NVM_DIR"}
      [] line = LnNvmLoad   -> {"NVM_DIR", "nvm.sh"}
      [] line = LnNvmCompl  -> {"NVM_DIR"}
      [] line = LnNvmComment -> {"# nvm"}
      [] OTHER -> {}

\* Python's `sentinel in content` for a sentinel without a line break
InContent(sentinel, content) ==
    \E i \in 1..Len(content) : sentinel \in SentinelsIn(content[i])

\* number of lines of a profile that carry the sentinel
Occurrences(sentinel, content) ==
    Cardinality({i \in 1..Len(content) : sentinel \in SentinelsIn(content[i])})

\* result of a method: the machine afterwards and the value returned or
\* the exception raised
R(w, ret) == [w |-> w, ret |-> ret]

\* outcomes of the external commands one operation runs
Oracle ==
    [curl : BOOLEAN, pm : BOOLEAN, stow : BOOLEAN, unlink : BOOLEAN,
     python : BOOLEAN, query : BOOLEAN]

\* the commands an installation runs: download script, package manager, stow
InstallOracle ==
    [curl : BOOLEAN, pm : BOOLEAN, stow : BOOLEAN, unlink : {FALSE},
     python : {FALSE}, query : {FALSE}]

\* the commands a removal runs: deleting the binary, the Python probe, the
\* package queries and the package manager
RemoveOracle ==
    [curl : {FALSE}, pm : BOOLEAN, stow : {FALSE}, unlink : BOOLEAN,
     python : BOOLEAN, query : BOOLEAN]

----------------------------------------------------------------------------
(* packages/base.py *)

\* BaseInstaller._command_exists
_command_exists(w, command) == command \in w.path

\* the package_managers table of BaseInstaller._get_package_manager: for
\* each OS the (manager, install command) pairs in order of preference
PackageManagers(os_type) ==
    CASE os_type = "debian"  ->
             << <<"apt", "sudo apt update && sudo apt install -y">>,
                <<"apt-get",
                  "sudo apt-get update && sudo apt-get install -y">> >>
      [] os_type = "redhat"  ->
             << <<"dnf", "sudo dnf install -y">>,
                <<"yum", "sudo yum install -y">> >>
      [] os_type = "arch"    -> << <<"pacman", "sudo pacman -S --noconfirm">> >>
      [] os_type = "macos"   -> << <<"brew", "brew install">> >>
      [] os_type = "windows" ->
             << <<"winget", "winget install">>,
                <<"choco", "choco install -y">> >>
      [] OTHER -> <<>>

\* _get_package_manager walking its list from the last entry
_get_package_manager_LastFirst(w, h) ==
    LET managers == PackageManagers(_detect_os(h))
        found == {i \in 1..Len(managers) : _command_exists(w, managers[i][1])}
    IN  IF found = {} THEN <<RetNone, RetNone>>
        ELSE managers[CHOOSE i \in found : \A j \in found : i >= j]

\* BaseInstaller._get_package_manager: the first (manager, install command)
\* pair whose manager is on the search path, or (None, None)
_get_package_manager(w, h) ==
    LET managers == PackageManagers(_detect_os(h))
        found == {i \in 1..Len(managers) : _command_exists(w, managers[i][1])}
    IN  IF found = {} THEN <<RetNone, RetNone>>
        ELSE managers[CHOOSE i \in found : \A j \in found : i <= j]

\* BaseInstaller._ensure_stow_available
_ensure_stow_available(w, h, o) ==
    IF _command_exists(w, "stow") THEN R(w, RetTrue)
    ELSE IF _get_package_manager(w, h)[1] = RetNone THEN R(w, RetFalse)
    ELSE LET w1 == IF o.pm THEN [w EXCEPT !.path = @ \cup {"stow"}] ELSE w
         IN  IF _command_exists(w1, "stow") THEN R(w1, RetTrue)
             ELSE R(w1, RetFalse)

\* the links `stow -d packages -t <home> <package>` makes: it projects the
\* package directory, not its config subtree, into the home directory
StowLinks(self) == {[pkg |-> self.package_name, root |-> "package_dir"]}

\* the links _is_config_installed looks for: home paths that resolve to the
\* files of the config subtree
ConfigLinks(self) == {[pkg |-> self.package_name, root |-> "config_dir"]}

\* BaseInstaller.install_config
install_config(self, w, h, o) ==
    LET e == _ensure_stow_available(w, h, o)
    IN  IF ~Truthy(e.ret) THEN R(e.w, RetNone)
        ELSE IF "home_dir" \notin self.attrs THEN R(e.w, RetFalse)
        ELSE IF o.stow
             THEN R([e.w EXCEPT !.links = @ \cup StowLinks(self)], RetTrue)
             ELSE R(e.w, RetFalse)

\* BaseInstaller.uninstall_config
uninstall_config(self, w) == R(w, RetNone)

\* BaseInstaller._is_config_installed
_is_config_installed(self, w) ==
    IF self.package_name \notin w.configFiles THEN R(w, RetFalse)
    ELSE IF "home_dir" \notin self.attrs THEN R(w, "AttributeError")
    ELSE IF ConfigLinks(self) \subseteq w.links THEN R(w, RetTrue)
    ELSE R(w, RetFalse)

\* BaseInstaller.is_config_installed
is_config_installed(self, w) == _is_config_installed(self, w)

\* BaseInstaller.__init__: the body run with the package name
BaseInit(cls, package_name) ==
    IF ~\E p \in PackageIds : PackageDir[p] = <<"packages", package_name>>
    THEN [ret |-> "FileNotFoundError", inst |-> NoInst]
    ELSE [ret |-> RetNone,
          inst |-> [cls |-> cls, package_name |-> package_name,
                    attrs |-> {"package_name", "package_dir", "config_dir"}]]

\* calling an installer class with positional arguments: Python binds them
\* to __init__, which hands the package name to BaseInstaller.__init__; a
\* class with abstract methods left, BaseInstaller itself, is not
\* instantiable, and neither is a name that is no installer class
Construct(cls, args) ==
    IF cls \notin InstallerClasses
    THEN [ret |-> "TypeError", inst |-> NoInst]
    ELSE IF Len(args) > CtorParams[cls] \/ Len(args) < 1
    THEN [ret |-> "TypeError", inst |-> NoInst]
    ELSE LET b == BaseInit(cls, args[1])
         IN  IF IsRaise(b.ret) THEN b
             ELSE [ret |-> RetNone,
                   inst |-> [b.inst EXCEPT !.attrs = @ \cup CtorAttrs[cls]]]

----------------------------------------------------------------------------
(* Profile edits shared by the installers *)

\* open(path, 'a').write(block): the file is created when it is missing
AppendLines(w, name, block) ==
    [w EXCEPT !.files[name] =
        (IF @ = NoFile THEN <<>> ELSE @) \o block]

\* the lines of a content that pass a filter
RECURSIVE KeepLines(_, _)
KeepLines(content, drop) ==
    IF content = <<>> THEN <<>>
    ELSE IF Head(content) \in drop THEN KeepLines(Tail(content), drop)
    ELSE <<Head(content)>> \o KeepLines(Tail(content), drop)

----------------------------------------------------------------------------
(* packages/starship/installer.py *)

Starship_is_software_installed(self, w) ==
    IF _command_exists(w, "starship") THEN R(w, RetTrue) ELSE R(w, RetFalse)

Starship_install_software(self, w, h, o) ==
    LET os_type == _detect_os(h)
    IN  IF os_type \in {"linux", "macos", "debian", "redhat", "arch"}
        THEN IF o.curl
             THEN R([w EXCEPT !.path = @ \cup {"starship"}], RetTrue)
             ELSE R(w, RetFalse)
        ELSE IF os_type = "windows" THEN R(w, RetNone)
        ELSE R(w, RetFalse)

Starship_uninstall_software(self, w, o) ==
    IF _command_exists(w, "starship")
    THEN IF o.unlink
         THEN R([w EXCEPT !.path = @ \ {"starship"}], RetTrue)
         ELSE R(w, RetFalse)
    ELSE R(w, RetTrue)

\* StarshipInstaller._setup_bash_integration and _setup_zsh_integration
Starship_setup_profile(self, w, name, starship_init) ==
    IF "home_dir" \notin self.attrs THEN R(w, "AttributeError")
    ELSE IF w.files[name] # NoFile /\ InContent(starship_init, w.files[name])
    THEN R(w, RetTrue)
    ELSE R(AppendLines(w, name, <<"", LnStarComment, starship_init>>), RetTrue)

Starship_setup_integration(self, w, h) ==
    LET current_shell == _detect_current_shell(h)
    IN  IF current_shell = "bash"
        THEN Starship_setup_profile(self, w, ".bashrc", LnStarBash)
        ELSE IF current_shell = "zsh"
        THEN Starship_setup_profile(self, w, ".zshrc", LnStarZsh)
        ELSE R(w, RetTrue)

----------------------------------------------------------------------------
(* packages/pyenv/installer.py *)

PyenvBlock == <<"", LnPyenvComment, LnPyenvRoot, LnPyenvPath, LnPyenvEval>>

\* lines _remove_bash_integration and _remove_zsh_integration filter out
PyenvLines == {LnPyenvComment, LnPyenvRoot, LnPyenvPath, LnPyenvEval}

Pyenv_is_software_installed(self, w) ==
    IF _command_exists(w, "pyenv") \/ ".pyenv" \in w.home
    THEN R(w, RetTrue) ELSE R(w, RetFalse)

\* PyenvInstaller._setup_bash_integration and _setup_zsh_integration
Pyenv_setup_profile(self, w, name) ==
    IF "home_dir" \notin self.attrs THEN R(w, "AttributeError")
    ELSE IF w.files[name] # NoFile /\ InContent("pyenv init", w.files[name])
    THEN R(w, RetTrue)
    ELSE R(AppendLines(w, name, PyenvBlock), RetTrue)

\* PyenvInstaller._setup_shell_integration
Pyenv_setup_shell_integration(self, w, h) ==
    LET current_shell == _detect_current_shell(h)
    IN  IF current_shell = "bash" THEN Pyenv_setup_profile(self, w, ".bashrc")
        ELSE IF current_shell = "zsh" THEN Pyenv_setup_profile(self, w, ".zshrc")
        ELSE R(w, RetTrue)

\* PyenvInstaller._remove_bash_integration and _remove_zsh_integration
Pyenv_remove_profile(self, w, name) ==
    IF "home_dir" \notin self.attrs THEN R(w, "AttributeError")
    ELSE IF w.files[name] = NoFile THEN R(w, RetTrue)
    ELSE R([w EXCEPT !.files[name] = KeepLines(@, PyenvLines)], RetTrue)

\* PyenvInstaller._remove_shell_integration
Pyenv_remove_shell_integration(self, w, h) ==
    LET current_shell == _detect_current_shell(h)
    IN  IF current_shell = "bash" THEN Pyenv_remove_profile(self, w, ".bashrc")
        ELSE IF current_shell = "zsh" THEN Pyenv_remove_profile(self, w, ".zshrc")
        ELSE R(w, RetTrue)

Pyenv_setup_integration(self, w, h) == Pyenv_setup_shell_integration(self, w, h)

Pyenv_uninstall_integration(self, w, h) == Pyenv_remove_shell_integration(self, w, h)

\* the installer script puts pyenv below ~/.pyenv; the version prompt that
\* follows leaves the modelled machine as it is
Pyenv_install_software(self, w, h, o) ==
    LET os_type == _detect_os(h)
    IN  IF os_type \in {"linux", "macos", "debian", "redhat", "arch"}
        THEN IF o.curl
             THEN LET w1 == [w EXCEPT !.home = @ \cup {".pyenv"}]
                      s  == Pyenv_setup_shell_integration(self, w1, h)
                  IN  IF IsRaise(s.ret) THEN s ELSE R(s.w, RetTrue)
             ELSE R(w, RetFalse)
        ELSE R(w, RetFalse)

\* PyenvInstaller._detect_installation_method
Pyenv_detect_installation_method(self, w, h, o) ==
    LET pm == _get_package_manager(w, h)[1]
    IN  IF _command_exists(w, "brew") /\ o.query THEN "homebrew"
        ELSE IF pm \in {"apt", "apt-get", "dnf", "yum", "pacman"} /\ o.query
        THEN "package_manager"
        ELSE IF ".pyenv" \in w.home THEN "script"
        ELSE "unknown"

\* PyenvInstaller.uninstall_software: every exception inside is caught and
\* turned into False
Pyenv_uninstall_software(self, w, h, o) ==
    IF ~o.python THEN R(w, RetFalse)
    ELSE LET r == Pyenv_remove_shell_integration(self, w, h)
             method == Pyenv_detect_installation_method(self, r.w, h, o)
             pm == _get_package_manager(r.w, h)[1]
             gone == [r.w EXCEPT !.home = @ \ {".pyenv"}]
         IN  IF IsRaise(r.ret) THEN R(r.w, RetFalse)
             ELSE IF method = "homebrew"
             THEN IF o.pm
                  THEN R([gone EXCEPT !.path = @ \ {"pyenv"}], RetTrue)
                  ELSE R(r.w, RetFalse)
             ELSE IF method = "package_manager"
             THEN IF pm \in {"apt", "yum", "dnf", "pacman"}
                  THEN IF o.pm
                       THEN R([gone EXCEPT !.path = @ \ {"pyenv"}], RetTrue)
                       ELSE R(r.w, RetFalse)
                  ELSE R(r.w, RetFalse)
             ELSE R(gone, RetTrue)

----------------------------------------------------------------------------
(* packages/core/nvm/installer.py *)

NvmBlock == <<"", LnNvmComment, LnNvmDir, LnNvmLoad, LnNvmCompl>>

\* lines the three sed commands of _remove_nvm_shell_integration delete
NvmLines == {LnNvmComment, LnNvmDir, LnNvmLoad, LnNvmCompl}

Nvm_is_software_installed(self, w) ==
    IF ".nvm/nvm.sh" \in w.home THEN R(w, RetTrue) ELSE R(w, RetFalse)

\* the test _setup_nvm_shell_integration makes on one profile: the file
\* exists and what was read from it lacks NVM_DIR
Nvm_profile_lacks_integration(w, name) ==
    w.files[name] # NoFile /\ ~InContent("NVM_DIR", w.files[name])

\* an append that reads the profile once more and skips a block that is
\* already there
Nvm_append_integration_Rechecks(w, name) ==
    IF InContent("NVM_DIR", w.files[name]) THEN w
    ELSE AppendLines(w, name, NvmBlock)

\* the write _setup_nvm_shell_integration makes after that test: the file
\* is opened again, for appending, and the block is written
Nvm_append_integration(w, name) == AppendLines(w, name, NvmBlock)

\* NvmInstaller._setup_nvm_shell_integration run without interruption:
\* every profile that exists and lacks NVM_DIR gets the block
Nvm_setup_nvm_shell_integration(self, w) ==
    [w EXCEPT !.files =
        [n \in ProfileNames |->
            IF Nvm_profile_lacks_integration(w, n)
            THEN Nvm_append_integration(w, n).files[n]
            ELSE w.files[n]]]

\* NvmInstaller._remove_nvm_shell_integration
Nvm_remove_nvm_shell_integration(self, w) ==
    [w EXCEPT !.files =
        [n \in ProfileNames |->
            IF w.files[n] # NoFile THEN KeepLines(w.files[n], NvmLines)
            ELSE w.files[n]]]

Nvm_install_software(self, w, h, o) ==
    IF Truthy(Nvm_is_software_installed(self, w).ret) THEN R(w, RetTrue)
    ELSE IF o.curl
    THEN R(Nvm_setup_nvm_shell_integration(self,
               [w EXCEPT !.home = @ \cup {".nvm", ".nvm/nvm.sh"}]), RetTrue)
    ELSE R(w, RetFalse)

Nvm_uninstall_software(self, w, o) ==
    IF ~Truthy(Nvm_is_software_installed(self, w).ret) THEN R(w, RetTrue)
    ELSE R(Nvm_remove_nvm_shell_integration(self,
               [w EXCEPT !.home = @ \ {".nvm", ".nvm/nvm.sh"}]), RetTrue)

----------------------------------------------------------------------------
(* Method lookup: calling a method the class neither defines nor inherits *)
(* raises AttributeError                                                   *)

ByClass(self, starship, pyenv, nvm) ==
    IF self.cls = "StarshipInstaller" THEN starship
    ELSE IF self.cls = "PyenvInstaller" THEN pyenv
    ELSE nvm

Call(self, method, w, h, o) ==
    IF method \notin ClassMethods[self.cls] THEN R(w, "AttributeError")
    ELSE CASE method = "install_config"      -> install_config(self, w, h, o)
           [] method = "uninstall_config"    -> uninstall_config(self, w)
           [] method = "is_config_installed" -> is_config_installed(self, w)
           [] method = "is_software_installed" ->
                ByClass(self, Starship_is_software_installed(self, w),
                              Pyenv_is_software_installed(self, w),
                              Nvm_is_software_installed(self, w))
           [] method = "install_software" ->
                ByClass(self, Starship_install_software(self, w, h, o),
                              Pyenv_install_software(self, w, h, o),
                              Nvm_install_software(self, w, h, o))
           [] method = "uninstall_software" ->
                ByClass(self, Starship_uninstall_software(self, w, o),
                              Pyenv_uninstall_software(self, w, h, o),
                              Nvm_uninstall_software(self, w, o))
           [] method = "setup_integration" ->
                ByClass(self, Starship_setup_integration(self, w, h),
                              Pyenv_setup_integration(self, w, h),
                              R(w, "AttributeError"))
           [] method = "uninstall_integration" ->
                ByClass(self, R(w, "AttributeError"),
                              Pyenv_uninstall_integration(self, w, h),
                              R(w, "AttributeError"))

----------------------------------------------------------------------------
(* packages/factory.py *)

EmptyMap == [p \in {} |-> RetNone]

\* sorted(ids)
Sorted(ids) == SelectSeq(IdOrder, LAMBDA x : x \in ids)

\* the keys PackageMetadata.__init__ reads with metadata_dict[...]
RequiredFields == {"id", "name", "category", "summary", "installer_class"}

\* json.load followed by PackageMetadata(metadata_dict, metadata_file) on one
\* descriptor file: the exception raised, or "None"
LoadMetadata(file) ==
    IF ~file.parses THEN "JSONDecodeError"
    ELSE IF ~(RequiredFields \subseteq file.fields) THEN "KeyError"
    ELSE RetNone

\* _discover_packages giving up the whole walk at the first descriptor whose
\* loading raises
_discover_packages_StopsAtError(reg, cache, desc) ==
    IF DOMAIN reg # {} THEN [registry |-> reg, cache |-> cache]
    ELSE LET valid == {p \in DOMAIN desc :
                          /\ \A q \in DOMAIN desc : ~IsRaise(LoadMetadata(desc[q]))
                          /\ desc[p].installer_py
                          /\ desc[p].config_dir
                          /\ desc[p].category \in Categories}
         IN  [registry |->
                 [p \in valid |->
                     [category   |-> desc[p].category,
                      class_name |-> desc[p].installer_class,
                      metadata   |-> desc[p]]],
              cache |-> [p \in valid |-> desc[p]]]

\* _discover_packages filling the metadata cache as soon as a descriptor is
\* loaded, before its structure and category are tested
_discover_packages_CachesBeforeChecks(reg, cache, desc) ==
    IF DOMAIN reg # {} THEN [registry |-> reg, cache |-> cache]
    ELSE LET loaded == {p \in DOMAIN desc : ~IsRaise(LoadMetadata(desc[p]))}
             valid == {p \in loaded :
                          /\ desc[p].installer_py
                          /\ desc[p].config_dir
                          /\ desc[p].category \in Categories}
         IN  [registry |->
                 [p \in valid |->
                     [category   |-> desc[p].category,
                      class_name |-> desc[p].installer_class,
                      metadata   |-> desc[p]]],
              cache |-> [p \in loaded |-> desc[p]]]

\* InstallerFactory._discover_packages: the registries after the call. The
\* walk is skipped when the registry is truthy, that is, not empty; a file
\* whose loading raises is passed over by the except clause of the loop.
_discover_packages(reg, cache, desc) ==
    IF DOMAIN reg # {} THEN [registry |-> reg, cache |-> cache]
    ELSE LET valid == {p \in DOMAIN desc :
                          /\ ~IsRaise(LoadMetadata(desc[p]))
                          /\ desc[p].installer_py
                          /\ desc[p].config_dir
                          /\ desc[p].category \in Categories}
         IN  [registry |->
                 [p \in valid |->
                     [category   |-> desc[p].category,
                      class_name |-> desc[p].installer_class,
                      metadata   |-> desc[p]]],
              cache |-> [p \in valid |-> desc[p]]]

\* InstallerFactory.get_available_packages
get_available_packages(cache, h, platform_filter) ==
    Sorted({p \in DOMAIN cache :
               ~platform_filter \/ is_supported_on_current_platform(cache[p], h)})

\* validate_dependencies_and_conflicts reporting every conflict entry,
\* installed or not
validate_dependencies_and_conflicts_AllConflicts(cache, h, package_id, installed_packages) ==
    LET metadata == cache[package_id]
    IN  [missing_dependencies |->
             SelectSeq(metadata.requires, LAMBDA d : d \notin installed_packages),
         conflicts |-> metadata.conflicts,
         warnings |->
             IF is_supported_on_current_platform(metadata, h) THEN <<>>
             ELSE <<"platform">>]

\* InstallerFactory.validate_dependencies_and_conflicts, on a package of
\* the metadata cache
validate_dependencies_and_conflicts(cache, h, package_id, installed_packages) ==
    LET metadata == cache[package_id]
    IN  [missing_dependencies |->
             SelectSeq(metadata.requires, LAMBDA d : d \notin installed_packages),
         conflicts |->
             SelectSeq(metadata.conflicts, LAMBDA c : c \in installed_packages),
         warnings |->
             IF is_supported_on_current_platform(metadata, h) THEN <<>>
             ELSE <<"platform">>]

\* InstallerFactory._load_installer_class: the class, or the exception
_load_installer_class(package_id, package_info) ==
    LET module_path == <<"packages", package_info.category, package_id>>
        modules == {p \in PackageIds : PackageDir[p] = module_path}
    IN  IF modules = {} THEN "ImportError"
        ELSE IF \A p \in modules : package_info.class_name \notin ModuleNames[p]
        THEN "AttributeError"
        ELSE IF package_info.class_name
                  \notin InstallerClasses \cup {"BaseInstaller"}
        THEN "TypeError"
        ELSE package_info.class_name

\* the enumeration with its last id lost
NotFoundMessage_DropsLast(reg) ==
    SubSeq(Sorted(DOMAIN reg), 1, Len(Sorted(DOMAIN reg)) - 1)

\* error message of create_installer for an id outside the registry: the
\* ids it enumerates
NotFoundMessage(reg) == Sorted(DOMAIN reg)

\* create_installer reporting a class that breaks the installer contract as
\* a class that was not found
create_installer_ContractAsNotFound(reg, h, package_id) ==
    IF package_id \notin DOMAIN reg
    THEN [ret |-> "ValueError", inst |-> NoInst, msg |-> NotFoundMessage(reg),
          warned |-> FALSE]
    ELSE LET package_info == reg[package_id]
             warned == ~is_supported_on_current_platform(package_info.metadata, h)
             installer_class == _load_installer_class(package_id, package_info)
             made == Construct(installer_class,
                               <<package_id, package_info.category>>)
         IN  IF installer_class \in {"ImportError", "AttributeError"}
             THEN [ret |-> installer_class, inst |-> NoInst, msg |-> <<>>,
                   warned |-> warned]
             ELSE IF IsRaise(made.ret)
             THEN [ret |-> "AttributeError", inst |-> NoInst, msg |-> <<>>,
                   warned |-> warned]
             ELSE [ret |-> "installer", inst |-> made.inst, msg |-> <<>>,
                   warned |-> warned]

\* InstallerFactory.create_installer on a discovered registry
create_installer(reg, h, package_id) ==
    IF package_id \notin DOMAIN reg
    THEN [ret |-> "ValueError", inst |-> NoInst, msg |-> NotFoundMessage(reg),
          warned |-> FALSE]
    ELSE LET package_info == reg[package_id]
             warned == ~is_supported_on_current_platform(package_info.metadata, h)
             installer_class == _load_installer_class(package_id, package_info)
             made == Construct(installer_class,
                               <<package_id, package_info.category>>)
         IN  IF installer_class \in {"ImportError", "AttributeError"}
             THEN [ret |-> installer_class, inst |-> NoInst, msg |-> <<>>,
                   warned |-> warned]
             ELSE IF IsRaise(made.ret)
             THEN [ret |-> "RuntimeError", inst |-> NoInst, msg |-> <<>>,
                   warned |-> warned]
             ELSE [ret |-> "installer", inst |-> made.inst, msg |-> <<>>,
                   warned |-> warned]

----------------------------------------------------------------------------
(* packages/factory.py: the catalog queries *)

\* a Python str as the sequence of its characters
Spell(s) ==
    CASE s = ""         -> <<>>
      [] s = "nvm"      -> <<"n", "v", "m">>
      [] s = "pyenv"    -> <<"p", "y", "e", "n", "v">>
      [] s = "starship" -> <<"s", "t", "a", "r", "s", "h", "i", "p">>
      [] s = "Prompt"   -> <<"P", "r", "o", "m", "p", "t">>
      [] s = "PROMPT"   -> <<"P", "R", "O", "M", "P", "T">>
      [] s = "Node"     -> <<"N", "o", "d", "e">>
      [] s = "Python"   -> <<"P", "y", "t", "h", "o", "n">>
      [] s = "shell"    -> <<"s", "h", "e", "l", "l">>
      [] s = "env"      -> <<"e", "n", "v">>
      [] s = "p p"      -> <<"p", " ", "p">>
      [] s = "ghost"    -> <<"g", "h", "o", "s", "t">>

\* str.lower() on one character
LowerChar(c) ==
    CASE c = "P" -> "p" [] c = "R" -> "r" [] c = "O" -> "o" [] c = "M" -> "m"
      [] c = "T" -> "t" [] c = "N" -> "n" [] OTHER -> c

\* str.lower()
Lower(text) == [i \in 1..Len(text) |-> LowerChar(text[i])]

\* ' '.join(words)
RECURSIVE Join(_)
Join(words) ==
    IF words = <<>> THEN <<>>
    ELSE IF Len(words) = 1 THEN Spell(words[1])
    ELSE Spell(words[1]) \o <<" ">> \o Join(Tail(words))

\* needle in text, on str
Contains(needle, text) ==
    \E i \in 1..(Len(text) + 1) :
        /\ i + Len(needle) - 1 <= Len(text)
        /\ SubSeq(text, i, i + Len(needle) - 1) = needle

\* matches_tags asking for every given tag
matches_tags_AllTags(m, tag_filter) ==
    \A i \in 1..Len(tag_filter) : tag_filter[i] \in SeqToSet(m.tags)

\* PackageMetadata.matches_tags
matches_tags(m, tag_filter) ==
    IF tag_filter = <<>> THEN TRUE
    ELSE \E i \in 1..Len(tag_filter) : tag_filter[i] \in SeqToSet(m.tags)

\* the f-string searched by search_packages, lowered
searchable_text(m) ==
    Lower(Spell(m.name) \o <<" ">> \o Spell(m.summary) \o <<" ">>
          \o Spell(m.description) \o <<" ">> \o Join(m.tags))

\* InstallerFactory.search_packages: the ids of the metadata returned, in
\* the order of their names
search_packages(cache, h, query, category, tags, platform_filter) ==
    Sorted({p \in DOMAIN cache :
              /\ ~(platform_filter /\ ~is_supported_on_current_platform(cache[p], h))
              /\ ~(category # "" /\ cache[p].category # category)
              /\ ~(tags # <<>> /\ ~matches_tags(cache[p], tags))
              /\ query # "" => Contains(Lower(Spell(query)), searchable_text(cache[p]))})

\* InstallerFactory.get_package_metadata: the metadata or the exception
get_package_metadata(cache, package_id) ==
    IF package_id \notin DOMAIN cache
    THEN [ret |-> "ValueError", metadata |-> RetNone]
    ELSE [ret |-> RetNone, metadata |-> cache[package_id]]

----------------------------------------------------------------------------
(* sherpa.py *)

\* the installer's methods called one after the other from a try block: the
\* first exception ends the block; install_software is skipped when the
\* is_software_installed before it answered true
RECURSIVE RunCalls(_, _, _, _, _, _)
RunCalls(self, methods, w, h, o, calls) ==
    IF methods = <<>>
    THEN [w |-> w, calls |-> calls, exc |-> RetNone]
    ELSE LET r == Call(self, Head(methods), w, h, o)
         IN
           IF IsRaise(r.ret)
           THEN [w |-> r.w, calls |-> Append(calls, Head(methods)),
                 exc |-> r.ret]
           ELSE RunCalls(self,
                         IF Head(methods) = "is_software_installed"
                            /\ Truthy(r.ret)
                         THEN Tail(Tail(methods)) ELSE Tail(methods),
                         r.w, h, o, Append(calls, Head(methods)))

\* the lifecycle calls of handle_install once the installer exists
InstallPhases(self, w, h, o) ==
    RunCalls(self, <<"is_software_installed", "install_software",
                     "install_config", "setup_integration">>, w, h, o, <<>>)

\* the lifecycle calls of handle_remove once the installer exists
RemovePhases(self, w, h, o) ==
    RunCalls(self, <<"uninstall_integration", "uninstall_config",
                     "uninstall_software">>, w, h, o, <<>>)

Op(op, pkg, outcome, calls, ret, msg) ==
    [op |-> op, pkg |-> pkg, outcome |-> outcome, calls |-> calls,
     ret |-> ret, msg |-> msg]

NoOp == Op("none", "", "none", <<>>, RetNone, <<>>)

\* handle_install taking every catalogued package as installed
handle_install_AllInstalled(cache, reg, w, h, o, package_name) ==
    LET available_packages == get_available_packages(cache, h, TRUE)
        installed_packages == DOMAIN cache
        issues == validate_dependencies_and_conflicts(
                      cache, h, package_name, installed_packages)
        created == create_installer(reg, h, package_name)
        ran == InstallPhases(created.inst, w, h, o)
    IN  IF package_name \notin SeqToSet(available_packages)
        THEN [w |-> w, did |-> Op("handle_install", package_name,
                  "not_available", <<>>, RetNone, available_packages)]
        ELSE IF issues.missing_dependencies # <<>>
        THEN [w |-> w, did |-> Op("handle_install", package_name,
                  "aborted_dependencies", <<"validate">>, RetNone,
                  issues.missing_dependencies)]
        ELSE IF issues.conflicts # <<>>
        THEN [w |-> w, did |-> Op("handle_install", package_name,
                  "aborted_conflicts", <<"validate">>, RetNone,
                  issues.conflicts)]
        ELSE IF IsRaise(created.ret)
        THEN [w |-> w, did |-> Op("handle_install", package_name,
                  "failed", <<"validate", "create_installer">>,
                  created.ret, created.msg)]
        ELSE [w |-> ran.w, did |-> Op("handle_install", package_name,
                  IF IsRaise(ran.exc) THEN "failed" ELSE "completed",
                  <<"validate", "create_installer">> \o ran.calls,
                  ran.exc, <<>>)]

\* handle_install without the return on missing dependencies
handle_install_NoDependencyAbort(cache, reg, w, h, o, package_name) ==
    LET available_packages == get_available_packages(cache, h, TRUE)
        issues == validate_dependencies_and_conflicts(
                      cache, h, package_name, {})
        created == create_installer(reg, h, package_name)
        ran == InstallPhases(created.inst, w, h, o)
    IN  IF package_name \notin SeqToSet(available_packages)
        THEN [w |-> w, did |-> Op("handle_install", package_name,
                  "not_available", <<>>, RetNone, available_packages)]
        ELSE IF issues.conflicts # <<>>
        THEN [w |-> w, did |-> Op("handle_install", package_name,
                  "aborted_conflicts", <<"validate">>, RetNone,
                  issues.conflicts)]
        ELSE IF IsRaise(created.ret)
        THEN [w |-> w, did |-> Op("handle_install", package_name,
                  "failed", <<"validate", "create_installer">>,
                  created.ret, created.msg)]
        ELSE [w |-> ran.w, did |-> Op("handle_install", package_name,
                  IF IsRaise(ran.exc) THEN "failed" ELSE "completed",
                  <<"validate", "create_installer">> \o ran.calls,
                  ran.exc, <<>>)]

\* handle_install(package_name): what it did and the machine afterwards
handle_install(cache, reg, w, h, o, package_name) ==
    LET available_packages == get_available_packages(cache, h, TRUE)
        installed_packages == {}
        issues == validate_dependencies_and_conflicts(
                      cache, h, package_name, installed_packages)
        created == create_installer(reg, h, package_name)
        ran == InstallPhases(created.inst, w, h, o)
    IN  IF package_name \notin SeqToSet(available_packages)
        THEN [w |-> w, did |-> Op("handle_install", package_name,
                  "not_available", <<>>, RetNone, available_packages)]
        ELSE IF issues.missing_dependencies # <<>>
        THEN [w |-> w, did |-> Op("handle_install", package_name,
                  "aborted_dependencies", <<"validate">>, RetNone,
                  issues.missing_dependencies)]
        ELSE IF issues.conflicts # <<>>
        THEN [w |-> w, did |-> Op("handle_install", package_name,
                  "aborted_conflicts", <<"validate">>, RetNone,
                  issues.conflicts)]
        ELSE IF IsRaise(created.ret)
        THEN [w |-> w, did |-> Op("handle_install", package_name,
                  "failed", <<"validate", "create_installer">>,
                  created.ret, created.msg)]
        ELSE [w |-> ran.w, did |-> Op("handle_install", package_name,
                  IF IsRaise(ran.exc) THEN "failed" ELSE "completed",
                  <<"validate", "create_installer">> \o ran.calls,
                  ran.exc, <<>>)]

\* handle_remove whose except clauses catch ValueError only
handle_remove_CatchesValueErrorOnly(cache, reg, w, h, o, package_name) ==
    LET available_packages == get_available_packages(cache, h, TRUE)
        created == create_installer(reg, h, package_name)
        ran == RemovePhases(created.inst, w, h, o)
        Caught(exc) == IF exc = "ValueError" THEN "failed" ELSE "escaped"
    IN  IF package_name \notin SeqToSet(available_packages)
        THEN [w |-> w, did |-> Op("handle_remove", package_name,
                  "not_available", <<>>, RetNone, available_packages)]
        ELSE IF IsRaise(created.ret)
        THEN [w |-> w, did |-> Op("handle_remove", package_name,
                  Caught(created.ret), <<"create_installer">>, created.ret,
                  created.msg)]
        ELSE [w |-> ran.w, did |-> Op("handle_remove", package_name,
                  IF IsRaise(ran.exc) THEN Caught(ran.exc) ELSE "completed",
                  <<"create_installer">> \o ran.calls, ran.exc, <<>>)]

\* handle_remove(package_name)
handle_remove(cache, reg, w, h, o, package_name) ==
    LET available_packages == get_available_packages(cache, h, TRUE)
        created == create_installer(reg, h, package_name)
        ran == RemovePhases(created.inst, w, h, o)
    IN  IF package_name \notin SeqToSet(available_packages)
        THEN [w |-> w, did |-> Op("handle_remove", package_name,
                  "not_available", <<>>, RetNone, available_packages)]
        ELSE IF IsRaise(created.ret)
        THEN [w |-> w, did |-> Op("handle_remove", package_name,
                  "failed", <<"create_installer">>, created.ret, created.msg)]
        ELSE [w |-> ran.w, did |-> Op("handle_remove", package_name,
                  IF IsRaise(ran.exc) THEN "failed" ELSE "completed",
                  <<"create_installer">> \o ran.calls, ran.exc, <<>>)]

\* InstallerFactory.get_packages_by_category: the ids of each category
\* that has any
get_packages_by_category(cache, h, platform_filter) ==
    LET shown == {p \in DOMAIN cache :
                     ~(platform_filter
                       /\ ~is_supported_on_current_platform(cache[p], h))}
    IN  [c \in {cache[p].category : p \in shown} |->
            Sorted({p \in shown : cache[p].category = c})]

\* handle_list(args): what it prints
handle_list(cache, h, category, tags, all_platforms) ==
    LET platform_filter == ~all_platforms
    IN  Op("handle_list", "", "completed", <<>>, RetNone,
           IF category # "" \/ tags # <<>>
           THEN search_packages(cache, h, "", category, tags, platform_filter)
           ELSE get_packages_by_category(cache, h, platform_filter))

\* handle_info(args): the ValueError of an unknown id is caught and the
\* available packages are printed instead
handle_info(cache, h, package) ==
    LET m == get_package_metadata(cache, package)
    IN  IF IsRaise(m.ret)
        THEN Op("handle_info", package, "not_available", <<>>, RetNone,
                get_available_packages(cache, h, TRUE))
        ELSE Op("handle_info", package, "completed", <<>>, RetNone,
                <<m.metadata.id>>)

\* handle_search(args): what it prints
handle_search(cache, h, query, category, tags) ==
    Op("handle_search", "", "completed", <<>>, RetNone,
       search_packages(cache, h, query, category, tags, TRUE))

\* main with no command: the help is printed
NoCommand == Op("help", "", "completed", <<>>, RetNone, <<>>)

\* an exit status not produced yet
NoExit == -1

\* main returning 0 only when the handler's operation did not fail
main_FailureStatus(did) == IF did.outcome \in {"failed", "escaped"} THEN 1 ELSE 0

\* main: the value returned after the handler of the command has returned;
\* an exception leaving the handler would leave main too and end the
\* process with status 1
main(did) == IF did.outcome = "escaped" THEN 1 ELSE 0

----------------------------------------------------------------------------
(* Initial states *)

\* category named by each descriptor
CategoryOf ==
    [p \in PackageIds |->
        CASE p = "nvm"      -> "core"
          [] p = "pyenv"    -> "runtimes"
          [] p = "starship" -> "shell"]

\* summary and tags written in each descriptor
SummaryOf ==
    [p \in PackageIds |->
        CASE p = "nvm" -> "Node" [] p = "pyenv" -> "Python"
          [] p = "starship" -> "Prompt"]

TagsOf ==
    [p \in PackageIds |->
        CASE p = "nvm" -> <<"Node">> [] p = "pyenv" -> <<"Python">>
          [] p = "starship" -> <<"shell">>]

\* one package.meta.json, as PackageMetadata.__init__ reads it
Metadata(p, requires, conflicts, supportsOs) ==
    [id |-> p, name |-> p, category |-> CategoryOf[p],
     installer_class |-> ModuleClass[p],
     requires |-> requires, conflicts |-> conflicts,
     supportsOs |-> supportsOs, supportsArch |-> <<>>,
     installer_py |-> TRUE, config_dir |-> TRUE,
     parses |-> TRUE, fields |-> RequiredFields,
     summary |-> SummaryOf[p], description |-> SummaryOf[p],
     tags |-> TagsOf[p]]

DescriptorChoices ==
    { [p \in PackageIds |->
          CASE p = "nvm"      -> Metadata(p, nvmRequires, nvmConflicts, <<>>)
            [] p = "pyenv"    -> Metadata(p, <<>>, <<>>, <<>>)
            [] p = "starship" -> Metadata(p, <<>>, <<>>, starshipOs)] :
      nvmRequires \in {<<>>, <<"pyenv">>},
      nvmConflicts \in {<<>>, <<"starship">>},
      starshipOs \in {<<>>, <<"macos">>} }

DefaultDescriptors ==
    [p \in PackageIds |-> Metadata(p, <<>>, <<>>, <<>>)]

\* commands that may be on the search path before the program runs
HostCommands(h) ==
    LET managers == PackageManagers(_detect_os(h))
    IN  {"stow"} \cup (IF managers = <<>> THEN {} ELSE {Head(managers)[1]})

BashrcChoices ==
    {NoFile, <<LnUser>>, <<LnUser, "", LnStarComment, LnStarBash>>}

ZshrcChoices == {NoFile, <<LnUser>>}

\* a config link made by hand before the program runs
HandMadeLinks == {[pkg |-> "starship", root |-> "config_dir"]}

Worlds(h) ==
    { [path |-> path, home |-> {},
       files |-> [n \in ProfileNames |->
                     IF n = ".bashrc" THEN bashrc
                     ELSE IF n = ".zshrc" THEN zshrc ELSE NoFile],
       links |-> links,
       configFiles |-> {"starship"}] :
      path \in SUBSET HostCommands(h),
      bashrc \in BashrcChoices,
      zshrc \in ZshrcChoices,
      links \in {{}, HandMadeLinks} }

InitCommon ==
    /\ host \in Hosts
    /\ world \in Worlds(host)
    /\ registry = EmptyMap
    /\ metadataCache = EmptyMap
    /\ inst = NoInst
    /\ last = NoOp
    /\ nops = 0
    /\ exitCode = NoExit
    /\ procs = NoProcs

Init ==
    /\ descriptors \in DescriptorChoices
    /\ InitCommon

\* the installers are also called on a home directory whose profiles carry
\* the pyenv lines already, added by hand as pyenv's own instructions tell
InitInstaller ==
    /\ descriptors = DefaultDescriptors
    /\ host \in Hosts
    /\ world \in Worlds(host) \cup
                 {[w EXCEPT !.files[".bashrc"] = @ \o PyenvBlock,
                            !.files[".zshrc"] = @ \o PyenvBlock] :
                     w \in {v \in Worlds(host) :
                               /\ v.files[".bashrc"] = <<LnUser>>
                               /\ v.files[".zshrc"] = <<LnUser>>}}
    /\ registry = EmptyMap
    /\ metadataCache = EmptyMap
    /\ inst = NoInst
    /\ last = NoOp
    /\ nops = 0
    /\ exitCode = NoExit
    /\ procs = NoProcs

----------------------------------------------------------------------------
(* Operations of the command line and of the factory *)

AnyId == PackageIds \cup {UnknownId}

Discovered == _discover_packages(registry, metadataCache, descriptors)

HandleInstall(p) ==
    /\ nops < MaxOps
    /\ \E d \in {Discovered} :
           \E r \in {handle_install(d.cache, d.registry, world, host, o, p) :
                         o \in InstallOracle} :
             /\ registry' = d.registry
             /\ metadataCache' = d.cache
             /\ world' = r.w
             /\ last' = r.did
             /\ exitCode' = main(r.did)
    /\ nops' = nops + 1
    /\ UNCHANGED <<procs, descriptors, host, inst>>

HandleRemove(p) ==
    /\ nops < MaxOps
    /\ \E d \in {Discovered} :
           \E r \in {handle_remove(d.cache, d.registry, world, host, o, p) :
                         o \in RemoveOracle} :
             /\ registry' = d.registry
             /\ metadataCache' = d.cache
             /\ world' = r.w
             /\ last' = r.did
             /\ exitCode' = main(r.did)
    /\ nops' = nops + 1
    /\ UNCHANGED <<procs, descriptors, host, inst>>

\* a direct call of InstallerFactory.create_installer, as the tests make
CreateInstaller(p) ==
    /\ nops < MaxOps
    /\ \E d \in {Discovered} :
       \E c \in {create_installer(d.registry, host, p)} :
           /\ registry' = d.registry
           /\ metadataCache' = d.cache
           /\ inst' = IF IsRaise(c.ret) THEN inst ELSE c.inst
           /\ last' = Op("create_installer", p,
                         IF IsRaise(c.ret) THEN "failed" ELSE "completed",
                         <<>>, c.ret, c.msg)
    /\ nops' = nops + 1
    /\ UNCHANGED <<procs, descriptors, host, world, exitCode>>

\* sherpa with no command
Help ==
    /\ nops < MaxOps
    /\ last' = NoCommand
    /\ exitCode' = main(NoCommand)
    /\ nops' = nops + 1
    /\ UNCHANGED <<procs, descriptors, host, world, registry, metadataCache,
                   inst>>

\* a command that only reads the catalog: list, info or search
Report(did) ==
    /\ nops < MaxOps
    /\ registry' = Discovered.registry
    /\ metadataCache' = Discovered.cache
    /\ last' = did
    /\ exitCode' = main(did)
    /\ nops' = nops + 1
    /\ UNCHANGED <<procs, descriptors, host, world, inst>>

HandleList(category, tags, all_platforms) ==
    Report(handle_list(Discovered.cache, host, category, tags, all_platforms))

HandleInfo(p) == Report(handle_info(Discovered.cache, host, p))

HandleSearch(query, category, tags) ==
    Report(handle_search(Discovered.cache, host, query, category, tags))

Next ==
    \/ \E p \in AnyId : HandleInstall(p)
    \/ \E p \in AnyId : HandleRemove(p)
    \/ \E p \in AnyId : CreateInstaller(p)
    \/ Help
    \/ \E c \in {"", "shell"}, f \in BOOLEAN : HandleList(c, <<>>, f)
    \/ \E p \in AnyId : HandleInfo(p)
    \/ \E q \in {"", "PROMPT"} : HandleSearch(q, "", <<>>)

Spec == Init /\ [][Next]_vars

----------------------------------------------------------------------------
(* Operations on one installer object *)

\* InstallerClass(package_name), the way each class declares its __init__
NewInstaller(package_name) ==
    /\ nops < MaxCalls
    /\ inst = NoInst
    /\ LET c == Construct(ModuleClass[package_name], <<package_name>>)
       IN  /\ inst' = c.inst
           /\ last' = Op("__init__", package_name,
                         IF IsRaise(c.ret) THEN "failed" ELSE "completed",
                         <<>>, c.ret, <<>>)
    /\ nops' = nops + 1
    /\ UNCHANGED <<procs, descriptors, host, world, registry, metadataCache,
                   exitCode>>

\* one method call on the installer object
Method(method, oracle) ==
    /\ nops < MaxCalls
    /\ inst # NoInst
    /\ \E r \in {Call(inst, method, world, host, o) : o \in oracle} :
           /\ world' = r.w
           /\ last' = Op(method, inst.package_name,
                         IF IsRaise(r.ret) THEN "failed" ELSE "completed",
                         <<>>, r.ret, <<>>)
    /\ nops' = nops + 1
    /\ UNCHANGED <<procs, descriptors, host, registry, metadataCache, inst,
                   exitCode>>

IsSoftwareInstalled  == Method("is_software_installed", InstallOracle)
InstallSoftware      == Method("install_software", InstallOracle)
UninstallSoftware    == Method("uninstall_software", RemoveOracle)
InstallConfig        == Method("install_config", InstallOracle)
UninstallConfig      == Method("uninstall_config", RemoveOracle)
IsConfigInstalled    == Method("is_config_installed", InstallOracle)
SetupIntegration     == Method("setup_integration", InstallOracle)
UninstallIntegration == Method("uninstall_integration", RemoveOracle)

NextInstaller ==
    \/ \E p \in PackageIds : NewInstaller(p)
    \/ IsSoftwareInstalled
    \/ InstallSoftware
    \/ UninstallSoftware
    \/ InstallConfig
    \/ UninstallConfig
    \/ IsConfigInstalled
    \/ SetupIntegration
    \/ UninstallIntegration

SpecInstaller == InitInstaller /\ [][NextInstaller]_vars

----------------------------------------------------------------------------
(* Vocabulary of the properties *)

\* the step just taken ran operation op
Ran(op) == nops' = nops + 1 /\ last'.op = op

\* outcomes of handle_install that end it before an installer is asked for
EarlyExits == {"not_available", "aborted_dependencies", "aborted_conflicts"}

LifecycleCalls ==
    {"create_installer", "is_software_installed", "install_software",
     "install_config", "setup_integration", "uninstall_integration",
     "uninstall_config", "uninstall_software"}

\* the software of package p is on the machine
SoftwareOn(w, p) ==
    CASE p = "starship" -> "starship" \in w.path
      [] p = "pyenv"    -> "pyenv" \in w.path \/ ".pyenv" \in w.home
      [] p = "nvm"      -> ".nvm/nvm.sh" \in w.home
      [] OTHER -> FALSE

\* the sentinel of package p's integration block in a profile
SentinelOf(p, name) ==
    CASE p = "starship" -> IF name = ".zshrc" THEN LnStarZsh ELSE LnStarBash
      [] p = "pyenv"    -> "pyenv init"
      [] OTHER          -> "NVM_DIR"

\* nothing of package p is on the machine
NeverInstalled(w, p) ==
    /\ ~SoftwareOn(w, p)
    /\ \A l \in w.links : l.pkg # p
    /\ \A n \in ProfileNames :
          w.files[n] = NoFile \/ ~InContent(SentinelOf(p, n), w.files[n])

\* the profile the current shell reads
ProfileOf(h) == IF _detect_current_shell(h) = "zsh" THEN ".zshrc" ELSE ".bashrc"

----------------------------------------------------------------------------
(* Properties of the handlers and the factory, checked under Spec *)

\* C1: a handle_install that gets past the availability and the
\* dependency/conflict checks asks for the installer and then calls
\* is_software_installed, install_software only if that returned false,
\* install_config and setup_integration, in this order and once each.
C1_InstallPhasesInOrder ==
    (last.op = "handle_install" /\ last.outcome \notin EarlyExits) =>
        last.calls \in
            { <<"validate", "create_installer", "is_software_installed",
                "install_software", "install_config", "setup_integration">>,
              <<"validate", "create_installer", "is_software_installed",
                "install_config", "setup_integration">> }

\* C2: handle_remove of an available package calls uninstall_integration,
\* then uninstall_config, then uninstall_software, once each.
C2_RemovePhasesInOrder ==
    (last.op = "handle_remove" /\ last.outcome # "not_available") =>
        last.calls = <<"create_installer", "uninstall_integration",
                       "uninstall_config", "uninstall_software">>

\* C3: a handle_install of an id outside the catalog, or of a package for
\* which validation lists a missing dependency or a conflict, asks for no
\* installer, calls no lifecycle phase and leaves the machine as it was.
C3_AbortBeforeMutation ==
    [][ \A p \in AnyId :
          ( /\ Ran("handle_install")
            /\ last'.pkg = p
            /\ \/ p \notin DOMAIN Discovered.cache
               \/ LET issues == validate_dependencies_and_conflicts(
                                    Discovered.cache, host, p, {})
                  IN  issues.missing_dependencies # <<>> \/ issues.conflicts # <<>> )
          => /\ world' = world
             /\ inst' = inst
             /\ SeqToSet(last'.calls) \cap LifecycleCalls = {}
             /\ last'.outcome \in EarlyExits ]_vars

\* a handle_install stopped by a missing dependency
C3_Witness ==
    /\ last.op = "handle_install"
    /\ last.pkg = "nvm"
    /\ last.outcome = "aborted_dependencies"
    /\ last.msg = <<"pyenv">>
    /\ last.calls = <<"validate">>

\* C4: create_installer of an id outside the catalog raises the not-found
\* error, returns no installer, and its message lists each catalog id once
\* and nothing else.
C4_NotFoundListsCatalog ==
    (last.op = "create_installer" /\ last.pkg \notin DOMAIN registry) =>
        /\ last.ret = "ValueError"
        /\ inst = NoInst
        /\ SeqToSet(last.msg) = DOMAIN registry
        /\ Len(last.msg) = Cardinality(DOMAIN registry)

C4_Witness ==
    /\ last.op = "create_installer"
    /\ last.pkg = UnknownId
    /\ last.ret = "ValueError"
    /\ last.msg = <<"nvm", "pyenv", "starship">>

\* C5: create_installer of a catalogued package whose installer module and
\* class exist returns an installer of the class the metadata names, with
\* package_name equal to the id, and raises nothing.
C5_CreateInstallerSucceeds ==
    ( /\ last.op = "create_installer"
      /\ last.pkg \in DOMAIN registry
      /\ _load_installer_class(last.pkg, registry[last.pkg]) \in InstallerClasses )
    => /\ last.ret = "installer"
       /\ inst.package_name = last.pkg
       /\ inst.cls = registry[last.pkg].class_name

C7_RemoveNeverInstalled ==
    [][ ( /\ Ran("handle_remove")
          /\ last'.outcome # "not_available"
          /\ NeverInstalled(world, last'.pkg) )
        => /\ last'.outcome = "completed"
           /\ {"uninstall_integration", "uninstall_config", "uninstall_software"}
                 \subseteq SeqToSet(last'.calls)
           /\ world' = world ]_vars

----------------------------------------------------------------------------
(* Properties of one installer object, checked under SpecInstaller *)

\* C8: on a package with a file in its config subtree and no link made by
\* hand, uninstall_config run right after install_config leaves no config
\* link: is_config_installed returns false.
C8_UnlinkAfterLink ==
    [][ ( /\ last.op = "install_config"
          /\ Ran("uninstall_config")
          /\ inst.package_name \in world.configFiles
          /\ world.links \cap HandMadeLinks = {} )
        => is_config_installed(inst', world').ret = RetFalse ]_vars

\* C9: a second install_config right after a first one returns what the
\* first returned, reports no error, and leaves the links as the first
\* call left them.
C9_InstallConfigTwice ==
    [][ (last.op = "install_config" /\ Ran("install_config"))
        => /\ last'.ret = last.ret
           /\ last'.ret = RetTrue
           /\ world'.links = world.links ]_vars

\* C10: after a setup_integration call of the starship or pyenv installer
\* under bash or zsh, the shell's profile holds the integration block
\* exactly once.
C10_IntegrationBlockOnce ==
    ( /\ last.op = "setup_integration"
      /\ inst.cls \in {"StarshipInstaller", "PyenvInstaller"}
      /\ _detect_current_shell(host) \in {"bash", "zsh"} )
    => /\ world.files[ProfileOf(host)] # NoFile
       /\ Occurrences(SentinelOf(inst.package_name, ProfileOf(host)),
                      world.files[ProfileOf(host)]) = 1

----------------------------------------------------------------------------
(* Properties of the installer objects, continued *)

\* C11: install_software called while the package's software is on the
\* machine returns True and leaves the machine as it was, and so does
\* uninstall_software called while the software is absent, whatever the
\* external commands would answer.
C11_SoftwareTransitionsIdempotent ==
    [][ ( \/ Ran("install_software") /\ SoftwareOn(world, inst.package_name)
          \/ Ran("uninstall_software") /\ ~SoftwareOn(world, inst.package_name) )
        => /\ last'.ret = RetTrue
           /\ world' = world ]_vars

----------------------------------------------------------------------------
(* Properties of the handlers and the factory, continued *)

\* every external command an operation runs succeeds
AllSucceed ==
    [curl |-> TRUE, pm |-> TRUE, stow |-> TRUE, unlink |-> TRUE,
     python |-> TRUE, query |-> TRUE]

\* package p is what a handle_install would go on to install: available on
\* this platform and with nothing listed as missing or conflicting
Installable(cache, h, p) ==
    /\ p \in SeqToSet(get_available_packages(cache, h, TRUE))
    /\ validate_dependencies_and_conflicts(cache, h, p, {}).missing_dependencies = <<>>
    /\ validate_dependencies_and_conflicts(cache, h, p, {}).conflicts = <<>>

\* software installed, config linked, integration block in a profile
FullyIntegrated(w, p) ==
    /\ SoftwareOn(w, p)
    /\ p \in w.configFiles => \E l \in w.links : l.pkg = p
    /\ \E n \in ProfileNames :
          w.files[n] # NoFile /\ InContent(SentinelOf(p, n), w.files[n])

\* C12: on a machine with nothing of package p, under bash or zsh, a
\* handle_install of p whose external commands all succeed leaves the
\* software installed, the config linked and the integration block in a
\* profile, and a handle_remove of p that follows, its commands succeeding
\* too, leaves nothing of p.
C12_InstallThenRemove ==
    [][ \A p \in PackageIds :
          LET d == Discovered
              installed == handle_install(d.cache, d.registry, world, host,
                                          AllSucceed, p)
              removed == handle_remove(d.cache, d.registry, installed.w, host,
                                       AllSucceed, p)
          IN  ( /\ Ran("handle_install")
                /\ last' = installed.did
                /\ world' = installed.w
                /\ Installable(d.cache, host, p)
                /\ NeverInstalled(world, p)
                /\ _detect_current_shell(host) \in {"bash", "zsh"} )
              => /\ last'.outcome = "completed"
                 /\ FullyIntegrated(world', p)
                 /\ removed.did.outcome = "completed"
                 /\ NeverInstalled(removed.w, p) ]_vars

----------------------------------------------------------------------------
(* Catalog queries made directly on the factory *)

\* one package.meta.json that also restricts the architecture
QueryMetadata(p, requires, conflicts, supportsOs, supportsArch) ==
    [Metadata(p, requires, conflicts, supportsOs)
        EXCEPT !.supportsArch = supportsArch]

QueryDescriptorChoices ==
    { [p \in PackageIds |->
          CASE p = "nvm"      -> QueryMetadata(p, nvmRequires, nvmConflicts,
                                               <<>>, <<>>)
            [] p = "pyenv"    -> QueryMetadata(p, <<>>, <<>>, <<>>, <<>>)
            [] p = "starship" -> QueryMetadata(p, <<>>, <<>>, starshipOs,
                                               starshipArch)] :
      nvmRequires \in {<<>>, <<"pyenv", "starship">>},
      nvmConflicts \in {<<>>, <<"starship">>},
      starshipOs \in {<<>>, <<"macos">>, <<"linux", "macos">>},
      starshipArch \in {<<>>, <<"arm64">>} }

InitQueries ==
    /\ descriptors \in QueryDescriptorChoices
    /\ host \in Hosts
    /\ world \in {w \in Worlds(host) :
                     /\ w.path = {} /\ w.links = {}
                     /\ \A n \in ProfileNames : w.files[n] = NoFile}
    /\ registry = EmptyMap
    /\ metadataCache = EmptyMap
    /\ inst = NoInst
    /\ last = NoOp
    /\ nops = 0
    /\ exitCode = NoExit
    /\ procs = NoProcs

\* what a query was asked and what it answered
Asked(fn, pkg, args, ret, result) ==
    [op |-> fn, pkg |-> pkg,
     outcome |-> IF IsRaise(ret) THEN "failed" ELSE "completed",
     calls |-> <<>>, ret |-> ret, msg |-> <<>>,
     args |-> args, result |-> result]

\* InstallerFactory.validate_dependencies_and_conflicts(p, installed)
ValidateDependenciesAndConflicts(p, installed) ==
    /\ \E d \in {Discovered} :
         \E m \in {get_package_metadata(d.cache, p)} :
           /\ registry' = d.registry
           /\ metadataCache' = d.cache
           /\ last' = Asked("validate_dependencies_and_conflicts", p,
                            [installed_packages |-> installed], m.ret,
                            IF IsRaise(m.ret) THEN RetNone
                            ELSE validate_dependencies_and_conflicts(
                                     d.cache, host, p, installed))
    /\ UNCHANGED <<procs, descriptors, host, world, inst, nops, exitCode>>

\* InstallerFactory.get_package_metadata(p).is_supported_on_current_platform()
IsSupportedOnCurrentPlatform(p) ==
    /\ \E d \in {Discovered} :
         \E m \in {get_package_metadata(d.cache, p)} :
           /\ registry' = d.registry
           /\ metadataCache' = d.cache
           /\ last' = Asked("is_supported_on_current_platform", p, <<>>,
                            m.ret,
                            IF IsRaise(m.ret) THEN RetNone
                            ELSE is_supported_on_current_platform(
                                     m.metadata, host))
    /\ UNCHANGED <<procs, descriptors, host, world, inst, nops, exitCode>>

SearchQueries == {"", "PROMPT", "env", "p p"}

SearchCategories == {"", "shell"}

SearchTags == {<<>>, <<"Node", "shell">>, <<"ghost">>}

\* InstallerFactory.search_packages(query, category, tags, platform_filter)
SearchPackages(query, category, tags, platform_filter) ==
    /\ \E d \in {Discovered} :
           /\ registry' = d.registry
           /\ metadataCache' = d.cache
           /\ last' = Asked("search_packages", "",
                            [query |-> query, category |-> category,
                             tags |-> tags,
                             platform_filter |-> platform_filter],
                            RetNone,
                            search_packages(d.cache, host, query, category,
                                            tags, platform_filter))
    /\ UNCHANGED <<procs, descriptors, host, world, inst, nops, exitCode>>

NextQueries ==
    \/ \E p \in AnyId, installed \in SUBSET PackageIds :
           ValidateDependenciesAndConflicts(p, installed)
    \/ \E p \in AnyId : IsSupportedOnCurrentPlatform(p)
    \/ \E q \in SearchQueries, c \in SearchCategories, t \in SearchTags,
          f \in BOOLEAN : SearchPackages(q, c, t, f)

SpecQueries == InitQueries /\ [][NextQueries]_vars

----------------------------------------------------------------------------
(* Properties of the catalog queries, checked under SpecQueries *)

\* C13: validate_dependencies_and_conflicts(id, installed) on a catalogued
\* id lists as missing exactly the entries of requires outside installed
\* and as conflicts exactly the entries of conflicts inside installed, each
\* once; with every requirement installed and no conflict installed both
\* lists are empty.
C13_ValidateExact ==
    ( /\ last.op = "validate_dependencies_and_conflicts"
      /\ last.pkg \in DOMAIN metadataCache )
    => LET installed == last.args.installed_packages
           requires == SeqToSet(descriptors[last.pkg].requires)
           conflicts == SeqToSet(descriptors[last.pkg].conflicts)
           missing == last.result.missing_dependencies
           found == last.result.conflicts
       IN  /\ last.ret = RetNone
           /\ SeqToSet(missing) = requires \ installed
           /\ Len(missing) = Cardinality(requires \ installed)
           /\ SeqToSet(found) = conflicts \cap installed
           /\ Len(found) = Cardinality(conflicts \cap installed)
           /\ (requires \subseteq installed /\ conflicts \cap installed = {})
                 => missing = <<>> /\ found = <<>>

\* nvm requiring pyenv and starship and conflicting with starship, asked
\* with only starship installed
C13_Witness ==
    /\ last.op = "validate_dependencies_and_conflicts"
    /\ last.pkg = "nvm"
    /\ last.args.installed_packages = {"starship"}
    /\ last.result.missing_dependencies = <<"pyenv">>
    /\ last.result.conflicts = <<"starship">>

\* C14: is_supported_on_current_platform answers true exactly when
\* supports.os is empty or holds the current OS, and supports.arch is empty
\* or holds the current architecture; the current OS and architecture being
\* platform.system() and platform.machine() under their canonical names.
C14_SupportedIffBothLists ==
    ( /\ last.op = "is_supported_on_current_platform"
      /\ last.pkg \in DOMAIN metadataCache )
    => LET os == SeqToSet(descriptors[last.pkg].supportsOs)
           arch == SeqToSet(descriptors[last.pkg].supportsArch)
           current_os == IF host.system = "darwin" THEN "macos"
                         ELSE host.system
           current_arch == IF host.machine \in {"arm64", "aarch64"}
                           THEN "arm64" ELSE "x86_64"
       IN  /\ last.result \in BOOLEAN
           /\ last.result <=> /\ os = {} \/ current_os \in os
                              /\ arch = {} \/ current_arch \in arch
           /\ (os = {} /\ arch = {}) => last.result

\* both lists given and only the architecture matching: linux on aarch64
\* against os [macos], arch [arm64]
C14_Witness ==
    /\ last.op = "is_supported_on_current_platform"
    /\ last.pkg = "starship"
    /\ descriptors["starship"].supportsOs = <<"macos">>
    /\ descriptors["starship"].supportsArch = <<"arm64">>
    /\ host.system = "linux"
    /\ host.machine = "aarch64"
    /\ last.result = FALSE

----------------------------------------------------------------------------
(* Properties of the handlers and the factory, continued *)

\* C15: create_installer of a catalogued package that does not support the
\* current platform returns an installer of that package and logs the
\* platform warning.
C15_UnsupportedStillCreated ==
    ( /\ last.op = "create_installer"
      /\ last.pkg \in DOMAIN registry
      /\ ~is_supported_on_current_platform(registry[last.pkg].metadata, host) )
    => /\ last.ret = "installer"
       /\ inst.package_name = last.pkg
       /\ create_installer(registry, host, last.pkg).warned

\* C16: a handle_install of a catalogued package that does not support the
\* current platform, with nothing missing and no conflict, is not stopped
\* by a check: the installer is asked for and the lifecycle phases
\* install_config and setup_integration are called.
C16_UnsupportedProceeds ==
    [][ \A p \in PackageIds :
          ( /\ Ran("handle_install")
            /\ last'.pkg = p
            /\ p \in DOMAIN Discovered.cache
            /\ ~is_supported_on_current_platform(Discovered.cache[p], host)
            /\ descriptors[p].requires = <<>>
            /\ descriptors[p].conflicts = <<>> )
          => /\ last'.outcome \notin EarlyExits
             /\ "create_installer" \in SeqToSet(last'.calls)
             /\ {"install_config", "setup_integration"}
                    \subseteq SeqToSet(last'.calls) ]_vars

----------------------------------------------------------------------------
(* Properties of the catalog queries, continued *)

\* C17: search_packages(query, category, tags, platform_filter) returns,
\* each once, exactly the catalogued packages that pass every active
\* filter: supported on the platform when platform_filter is set, of the
\* given category when one is given, carrying at least one of the given
\* tags when tags are given, and with the query, letter case aside, inside
\* "name summary description tags"; an empty query filters nothing.
C17_SearchConjunctive ==
    last.op = "search_packages"
    => LET a == last.args
           Passes(p) ==
               LET m == descriptors[p]
                   text == Spell(m.name) \o <<" ">> \o Spell(m.summary)
                           \o <<" ">> \o Spell(m.description) \o <<" ">>
                           \o Join(m.tags)
               IN  /\ a.platform_filter
                        => is_supported_on_current_platform(m, host)
                   /\ a.category # "" => m.category = a.category
                   /\ a.tags # <<>>
                        => SeqToSet(a.tags) \cap SeqToSet(m.tags) # {}
                   /\ a.query # ""
                        => Contains(Lower(Spell(a.query)), Lower(text))
       IN  /\ SeqToSet(last.result) = {p \in DOMAIN metadataCache : Passes(p)}
           /\ Len(last.result) = Cardinality(SeqToSet(last.result))
           /\ (a.query = "" /\ a.category = "" /\ a.tags = <<>>
               /\ ~a.platform_filter)
                 => SeqToSet(last.result) = DOMAIN metadataCache

\* the query PROMPT with two tags of which starship carries one
C17_Witness ==
    /\ last.op = "search_packages"
    /\ last.args.query = "PROMPT"
    /\ last.args.tags = <<"Node", "shell">>
    /\ last.args.category = "shell"
    /\ last.args.platform_filter
    /\ last.result = <<"starship">>

----------------------------------------------------------------------------
(* Properties of the handlers and of main, checked under Spec *)

\* the ways a handler's operation ends with the handler returning
HandlerOutcomes == EarlyExits \cup {"failed", "completed"}

\* C18: a handle_install or handle_remove always returns to main: an
\* unknown id ends it as not available, and an exception raised by
\* create_installer or by a lifecycle phase is caught there and ends that
\* operation as failed; none leaves the handler.
C18_NoErrorEscapes ==
    last.op \in {"handle_install", "handle_remove"}
    => /\ last.outcome \in HandlerOutcomes
       /\ IsRaise(last.ret) => last.outcome = "failed"
       /\ last.pkg \notin DOMAIN registry => last.outcome = "not_available"
       /\ exitCode # NoExit

\* a removal whose installer could not be constructed
C18_Witness ==
    /\ last.op = "handle_remove"
    /\ last.pkg = "nvm"
    /\ last.ret = "RuntimeError"
    /\ last.calls = <<"create_installer">>
    /\ last.outcome = "failed"

\* C19: a handle_install that reaches validation validates against the
\* empty installed set, whatever ran before: it never ends on a conflict,
\* and for a package with a non-empty requires list it ends on the missing
\* dependencies, which are the whole requires list.
C19_ValidatesAgainstNothing ==
    [][ \A p \in PackageIds :
          ( /\ Ran("handle_install")
            /\ last'.pkg = p
            /\ p \in SeqToSet(get_available_packages(Discovered.cache, host,
                                                     TRUE)) )
          => /\ last'.outcome # "aborted_conflicts"
             /\ descriptors[p].requires # <<>>
                  => /\ last'.outcome = "aborted_dependencies"
                     /\ last'.msg = descriptors[p].requires
                     /\ world' = world
             /\ descriptors[p].requires = <<>>
                  => "create_installer" \in SeqToSet(last'.calls) ]_vars

\* a second operation installing nvm, whose descriptor requires pyenv and
\* conflicts with starship
C19_Witness ==
    /\ nops = 2
    /\ last.op = "handle_install"
    /\ last.pkg = "nvm"
    /\ descriptors["nvm"].conflicts = <<"starship">>
    /\ descriptors["nvm"].requires = <<"pyenv">>
    /\ last.outcome = "aborted_dependencies"

\* the operations main dispatches to, and its help
Commands ==
    {"help", "handle_list", "handle_info", "handle_search", "handle_install",
     "handle_remove"}

\* C20: main returns 0 after every command, whether the command was the
\* help, a listing, an info, a search, or an install or a remove, and
\* whatever became of the install or the remove.
C20_MainReturnsZero ==
    last.op \in Commands => exitCode = 0

\* an install that failed, with main returning 0
C20_Witness ==
    /\ last.op = "handle_install"
    /\ last.outcome = "failed"
    /\ last.ret = "ImportError"
    /\ exitCode = 0

----------------------------------------------------------------------------
(* The factory over a packages directory that is edited while the process *)
(* runs: SpecFactory                                                       *)

\* what the package.meta.json of one package directory can hold when the
\* factory is first used: a well-formed descriptor, or one of the cases the
\* walk of _discover_packages passes over or create_installer fails on
DescriptorFiles(p) ==
    LET good == DefaultDescriptors[p]
    IN  CASE p = "nvm" ->
               {[good EXCEPT !.installer_class = c] :
                    c \in {"NvmInstaller", "BaseInstaller", "logger", "Missing"}}
          [] p = "pyenv" ->
               {good, [good EXCEPT !.category = "misc"],
                [good EXCEPT !.installer_py = FALSE]}
          [] p = "starship" ->
               {good, [good EXCEPT !.parses = FALSE],
                [good EXCEPT !.fields = RequiredFields \ {"summary"}]}

\* the descriptor files below packages/: a package directory may hold none
FactoryDisks ==
    UNION { {d \in [present -> UNION {DescriptorFiles(p) : p \in present}] :
                \A p \in present : d[p] \in DescriptorFiles(p)} :
            present \in SUBSET PackageIds }

InitFactory ==
    /\ descriptors \in FactoryDisks
    /\ host = CHOOSE h \in Hosts : h.system = "darwin"
    /\ world = CHOOSE w \in Worlds(host) :
                   /\ w.path = {} /\ w.links = {}
                   /\ \A n \in ProfileNames : w.files[n] = NoFile
    /\ registry = EmptyMap
    /\ metadataCache = EmptyMap
    /\ inst = NoInst
    /\ last = NoOp
    /\ nops = 0
    /\ exitCode = NoExit
    /\ procs = NoProcs

\* a package.meta.json written into a package directory that had none
WriteDescriptor(p) ==
    /\ p \notin DOMAIN descriptors
    /\ descriptors' =
           [q \in DOMAIN descriptors \cup {p} |->
               IF q = p THEN DefaultDescriptors[p] ELSE descriptors[q]]
    /\ UNCHANGED <<procs, host, world, registry, metadataCache, inst, last,
                   nops,
                   exitCode>>

\* the config directory of a package removed from the disk
DeleteConfigDir(p) ==
    /\ p \in DOMAIN descriptors
    /\ descriptors[p].config_dir
    /\ descriptors' = [descriptors EXCEPT ![p].config_dir = FALSE]
    /\ UNCHANGED <<procs, host, world, registry, metadataCache, inst, last,
                   nops,
                   exitCode>>

\* InstallerFactory.is_package_supported
is_package_supported(reg, package_id) ==
    IF package_id \in DOMAIN reg THEN RetTrue ELSE RetFalse

\* one call of a factory query: discovery first, then the answer
FactoryQuery(fn, p, args, ret, result) ==
    /\ nops < MaxOps
    /\ registry' = Discovered.registry
    /\ metadataCache' = Discovered.cache
    /\ last' = Asked(fn, p, args, ret, result)
    /\ nops' = nops + 1
    /\ UNCHANGED <<procs, descriptors, host, world, inst, exitCode>>

\* InstallerFactory.get_available_packages(platform_filter)
GetAvailablePackages(platform_filter) ==
    FactoryQuery("get_available_packages", "",
                 [platform_filter |-> platform_filter], RetNone,
                 get_available_packages(Discovered.cache, host,
                                        platform_filter))

\* InstallerFactory.get_package_metadata(p)
GetPackageMetadata(p) ==
    FactoryQuery("get_package_metadata", p, <<>>,
                 get_package_metadata(Discovered.cache, p).ret,
                 get_package_metadata(Discovered.cache, p).metadata)

\* InstallerFactory.is_package_supported(p)
IsPackageSupported(p) ==
    FactoryQuery("is_package_supported", p, <<>>,
                 is_package_supported(Discovered.registry, p), RetNone)

NextFactory ==
    \/ \E p \in PackageIds : WriteDescriptor(p)
    \/ \E p \in PackageIds : DeleteConfigDir(p)
    \/ \E p \in AnyId : CreateInstaller(p)
    \/ \E f \in BOOLEAN : GetAvailablePackages(f)
    \/ \E p \in AnyId : GetPackageMetadata(p)
    \/ \E p \in AnyId : IsPackageSupported(p)

SpecFactory == InitFactory /\ [][NextFactory]_vars

----------------------------------------------------------------------------
(* Properties of the factory's catalog, checked under SpecFactory *)

\* C21: discovery is memoized. Once a factory call has discovered the
\* catalog, every later factory call (create_installer, a query) keeps the
\* registry and the metadata cache of the first discovery, whatever was
\* done to the packages directory in between and whatever the first
\* discovery found, an empty catalog included. The factory has no reset.
C21_DiscoveryMemoized ==
    [][ (nops > 0 /\ nops' = nops + 1)
        => (registry' = registry /\ metadataCache' = metadataCache) ]_vars

\* a descriptor file the catalog is to hold: it parses, carries the
\* required fields, names a known category, and stands next to an
\* installer.py and a config directory
WellFormed(file) ==
    /\ file.parses
    /\ RequiredFields \subseteq file.fields
    /\ file.category \in Categories
    /\ file.installer_py
    /\ file.config_dir

\* C22: after every factory call, each entry of the catalog has a category
\* of the fixed category set and had its installer.py and its config
\* directory when it was discovered; and a call that walks the packages
\* directory ends with exactly the well-formed descriptors in the catalog:
\* a descriptor that is malformed in any way is left out, and neither makes
\* the walk fail nor costs a well-formed descriptor its entry.
C22_CatalogHoldsValidOnly ==
    [][ (nops' = nops + 1)
        => /\ \A p \in DOMAIN registry' :
                /\ registry'[p].category \in Categories
                /\ registry'[p].metadata.installer_py
                /\ registry'[p].metadata.config_dir
           /\ registry = EmptyMap
                => /\ DOMAIN registry' =
                          {p \in DOMAIN descriptors : WellFormed(descriptors[p])}
                   /\ DOMAIN metadataCache' = DOMAIN registry'
                   /\ last'.ret \notin {"KeyError", "JSONDecodeError"} ]_vars

\* a walk that met a descriptor of unknown category and an unparsable one
\* and kept the well-formed one
C22_Witness ==
    /\ nops = 1
    /\ DOMAIN registry = {"nvm"}
    /\ "pyenv" \in DOMAIN descriptors /\ descriptors["pyenv"].category = "misc"
    /\ "starship" \in DOMAIN descriptors /\ ~descriptors["starship"].parses

\* the errors create_installer raises for an unknown id, an installer that
\* cannot be imported, a class that is not in the module, and anything else
ResolutionErrors == {"ValueError", "ImportError", "AttributeError", "RuntimeError"}

\* C23: create_installer validates the structure of the catalogued package
\* again. Called for a catalogued package whose config directory has been
\* deleted since discovery, it raises an invalid-structure error, an error
\* of its own kind and none of its other failures, and returns no installer;
\* called while the structure is intact, it raises no such error.
C23_RevalidatesStructure ==
    [][ (Ran("create_installer") /\ last'.pkg \in DOMAIN registry'
                                 /\ last'.pkg \in DOMAIN descriptors)
        => LET intact == /\ descriptors[last'.pkg].installer_py
                         /\ descriptors[last'.pkg].config_dir
           IN  /\ ~intact => /\ IsRaise(last'.ret)
                             /\ last'.ret \notin ResolutionErrors
                             /\ inst' = inst
               /\ intact => last'.ret \in ResolutionErrors \cup {"installer"}
      ]_vars

\* the installer module of a catalogued package exists and holds the name
\* its descriptor gives as installer_class
Located(p, package_info) ==
    /\ PackageDir[p] = <<"packages", package_info.category, p>>
    /\ package_info.class_name \in ModuleNames[p]

\* C24: create_installer tells its resolution failures apart. For a
\* catalogued package whose installer module or named class cannot be
\* located it raises an implementation-not-found error (ImportError for the
\* module, AttributeError for the class); when the name is found but is not
\* an instantiable BaseInstaller subclass it raises an error that is none
\* of those; in both cases the caller gets no installer.
C24_ResolutionFailuresDistinct ==
    [][ (Ran("create_installer") /\ last'.pkg \in DOMAIN registry')
        => LET package_info == registry'[last'.pkg]
               located == Located(last'.pkg, package_info)
               conforms == package_info.class_name \in InstallerClasses
           IN  /\ ~located => /\ last'.ret \in {"ImportError", "AttributeError"}
                              /\ inst' = inst
               /\ (located /\ ~conforms)
                      => /\ IsRaise(last'.ret)
                         /\ last'.ret \notin
                                {"ImportError", "AttributeError", "ValueError"}
                         /\ inst' = inst ]_vars

\* create_installer met a descriptor that names the logger object of the
\* module as the installer class
C24_Witness ==
    /\ last.op = "create_installer" /\ last.pkg = "nvm"
    /\ "nvm" \in DOMAIN registry
    /\ registry["nvm"].class_name = "logger"
    /\ last.ret = "RuntimeError"
    /\ inst = NoInst

----------------------------------------------------------------------------
(* Properties of the installer base, checked under SpecInstaller *)

\* C25: install_config first makes sure of the link tool. Called while
\* stow is not on the search path and is not there afterwards either (no
\* package manager, or the install attempt did not bring it), it returns
\* False, makes no link and raises nothing; called while stow is on the
\* search path, it installs nothing: the search path stays as it was.
C25_NoStowReturnsFalse ==
    [][ Ran("install_config")
        => /\ (~_command_exists(world, "stow") /\ ~_command_exists(world', "stow"))
                  => /\ last'.ret = RetFalse
                     /\ world'.links = world.links
           /\ _command_exists(world, "stow") => world'.path = world.path ]_vars

----------------------------------------------------------------------------
(* The platform functions applied on many hosts: SpecPlatform *)

\* hosts of every family _detect_os tells apart, and one it does not know
PlatformHosts ==
    Hosts \cup
    { [system |-> "linux", machine |-> "x86_64",
       osRelease |-> {r}, shellEnv |-> "bash"] :
          r \in {"debian", "fedora", "centos", "arch", "alpine"} } \cup
    { [system |-> "freebsd", machine |-> "amd64",
       osRelease |-> NoOsRelease, shellEnv |-> "zsh"] }

\* the search path holds any of the managers listed for the host's OS, and
\* may hold brew, which is listed for macos only
InitPlatform ==
    /\ descriptors = DefaultDescriptors
    /\ host \in PlatformHosts
    /\ world \in {[w EXCEPT !.path = path] :
                     w \in {v \in Worlds(host) :
                               /\ v.path = {} /\ v.links = {}
                               /\ \A n \in ProfileNames : v.files[n] = NoFile},
                     path \in SUBSET
                         ({m[1] : m \in SeqToSet(PackageManagers(_detect_os(host)))}
                              \cup {"brew"})}
    /\ registry = EmptyMap
    /\ metadataCache = EmptyMap
    /\ inst = NoInst
    /\ last = NoOp
    /\ nops = 0
    /\ exitCode = NoExit
    /\ procs = NoProcs

\* BaseInstaller._detect_os() on the host
DetectOs ==
    /\ last' = Asked("_detect_os", "", <<>>, RetNone, _detect_os(host))
    /\ UNCHANGED <<procs, descriptors, host, world, registry, metadataCache,
                   inst,
                   nops, exitCode>>

\* BaseInstaller._get_package_manager() on the host
GetPackageManager ==
    /\ last' = Asked("_get_package_manager", "", <<>>, RetNone,
                     _get_package_manager(world, host))
    /\ UNCHANGED <<procs, descriptors, host, world, registry, metadataCache,
                   inst,
                   nops, exitCode>>

\* is_supported_on_current_platform() of a descriptor with the given
\* supports.os and no supports.arch
PlatformSupported(supportsOs) ==
    /\ last' = Asked("is_supported_on_current_platform", "starship",
                     [os |-> supportsOs], RetNone,
                     is_supported_on_current_platform(
                         Metadata("starship", <<>>, <<>>, supportsOs), host))
    /\ UNCHANGED <<procs, descriptors, host, world, registry, metadataCache,
                   inst,
                   nops, exitCode>>

NextPlatform ==
    \/ DetectOs
    \/ GetPackageManager
    \/ \E s \in {<<>>, <<"linux">>, <<"debian">>, <<"redhat", "arch">>,
                 <<"macos">>, <<"unknown">>} : PlatformSupported(s)

SpecPlatform == InitPlatform /\ [][NextPlatform]_vars

----------------------------------------------------------------------------
(* Properties of the platform functions, checked under SpecPlatform *)

\* the manager names in the order the package manager is to be looked for
PreferenceOrder(os_type) ==
    CASE os_type = "debian"  -> <<"apt", "apt-get">>
      [] os_type = "redhat"  -> <<"dnf", "yum">>
      [] os_type = "arch"    -> <<"pacman">>
      [] os_type = "macos"   -> <<"brew">>
      [] os_type = "windows" -> <<"winget", "choco">>
      [] OTHER -> <<>>

\* C26: _get_package_manager returns the first manager of the detected
\* OS's preference order (debian: apt, apt-get; redhat: dnf, yum; arch:
\* pacman; macos: brew; windows: winget, choco) that is on the search path,
\* paired with the install command the table gives for it; it returns
\* (None, None) when none of them is on the path or the OS has no list; the
\* search path is left as it was.
C26_FirstManagerOnPath ==
    [][ (last'.op = "_get_package_manager" /\ last' # last)
        => LET order == PreferenceOrder(_detect_os(host))
               onPath == {i \in 1..Len(order) : order[i] \in world.path}
               table == PackageManagers(_detect_os(host))
           IN  /\ onPath = {} => last'.result = <<RetNone, RetNone>>
               /\ onPath # {}
                    => /\ \E i \in onPath :
                            /\ \A j \in onPath : i <= j
                            /\ last'.result[1] = order[i]
                       /\ \E k \in 1..Len(table) : last'.result = table[k]
               /\ world' = world ]_vars

\* both managers of a debian host are on the search path and apt is chosen
C26_Witness ==
    /\ last.op = "_get_package_manager"
    /\ _detect_os(host) = "debian"
    /\ {"apt", "apt-get"} \subseteq world.path
    /\ last.result = <<"apt", "sudo apt update && sudo apt install -y">>

----------------------------------------------------------------------------
(* Integration setups of several processes on one home directory:         *)
(* SpecConcurrent                                                          *)

\* the profiles in the order _setup_nvm_shell_integration visits them
ProfileOrder == <<".bashrc", ".zshrc", ".bash_profile">>

InitConcurrent ==
    /\ descriptors = DefaultDescriptors
    /\ host \in Hosts
    /\ world \in {w \in Worlds(host) : w.path = {} /\ w.links = {}}
    /\ registry = EmptyMap
    /\ metadataCache = EmptyMap
    /\ inst = NoInst
    /\ last = NoOp
    /\ nops = 0
    /\ exitCode = NoExit
    /\ procs \in [1..NumProcs ->
                     [cls : {"NvmInstaller", "StarshipInstaller"},
                      pc : {"check"}, file : {1}]]

\* the position after a process is through with its current profile
NextProfile(proc) ==
    IF proc.file = Len(ProfileOrder) THEN [proc EXCEPT !.pc = "done"]
    ELSE [proc EXCEPT !.pc = "check", !.file = @ + 1]

\* process i of nvm reads the profile it has come to and tests it
NvmCheck(i) ==
    /\ procs[i].cls = "NvmInstaller" /\ procs[i].pc = "check"
    /\ procs' =
         [procs EXCEPT ![i] =
             IF Nvm_profile_lacks_integration(world, ProfileOrder[@.file])
             THEN [@ EXCEPT !.pc = "append"]
             ELSE NextProfile(@)]
    /\ UNCHANGED <<descriptors, host, world, registry, metadataCache, inst,
                   last, nops, exitCode>>

\* process i of nvm writes the block to the profile it has tested
NvmAppend(i) ==
    /\ procs[i].cls = "NvmInstaller" /\ procs[i].pc = "append"
    /\ world' = Nvm_append_integration(world, ProfileOrder[procs[i].file])
    /\ procs' = [procs EXCEPT ![i] = NextProfile(@)]
    /\ UNCHANGED <<descriptors, host, registry, metadataCache, inst, last,
                   nops, exitCode>>

\* process i of starship calls setup_integration: the profile path is built
\* from self.home_dir before the profile is read
StarshipSetup(i) ==
    /\ procs[i].cls = "StarshipInstaller" /\ procs[i].pc = "check"
    /\ \E r \in {Starship_setup_integration(
                     Construct("StarshipInstaller", <<"starship">>).inst,
                     world, host)} :
          /\ world' = r.w
          /\ procs' = [procs EXCEPT ![i].pc =
                          IF IsRaise(r.ret) THEN "raised" ELSE "done"]
    /\ UNCHANGED <<descriptors, host, registry, metadataCache, inst, last,
                   nops, exitCode>>

\* another program, such as the nvm install script, adds the nvm lines to
\* ~/.bashrc when it does not find them there
ExternalEdit ==
    /\ Nvm_profile_lacks_integration(world, ".bashrc")
    /\ world' = AppendLines(world, ".bashrc", NvmBlock)
    /\ UNCHANGED <<descriptors, host, registry, metadataCache, inst, last,
                   nops, exitCode, procs>>

NextConcurrent ==
    \/ \E i \in 1..NumProcs : NvmCheck(i)
    \/ \E i \in 1..NumProcs : NvmAppend(i)
    \/ \E i \in 1..NumProcs : StarshipSetup(i)
    \/ ExternalEdit

SpecConcurrent == InitConcurrent /\ [][NextConcurrent]_vars

\* C27: the sentinel check and the append of an integration setup are two
\* steps with nothing held between them: a process that has passed the
\* check writes its block whatever has been written to the profile since,
\* by another process or by another program, so that interleaved setups
\* leave the block more than once.
C27_AppendAfterCheckUnconditional ==
    [][ \A i \in 1..NumProcs :
          (procs[i].pc = "append" /\ procs'[i] # procs[i])
          => world'.files[ProfileOrder[procs[i].file]]
                 = world.files[ProfileOrder[procs[i].file]] \o NvmBlock ]_vars

\* two processes and another program all found ~/.bashrc without the nvm
\* lines before any of them wrote: the profile holds the block three times
C27_Witness ==
    /\ \A i \in {1, 2} : procs[i].cls = "NvmInstaller" /\ procs[i].pc = "done"
    /\ Occurrences("# nvm", world.files[".bashrc"]) = 3

----------------------------------------------------------------------------
(* More properties of the factory's catalog, checked under SpecFactory *)

\* C28: in every state the registry and the metadata cache hold the same
\* package ids, the metadata of each registry entry is the cached metadata,
\* with that id and the entry's category, and for every id
\* is_package_supported answers True exactly when get_package_metadata
\* does not raise.
C28_RegistryMatchesCache ==
    /\ DOMAIN registry = DOMAIN metadataCache
    /\ \A p \in DOMAIN registry :
          /\ registry[p].metadata = metadataCache[p]
          /\ metadataCache[p].id = p
          /\ metadataCache[p].category = registry[p].category
    /\ \A id \in AnyId :
          is_package_supported(Discovered.registry, id) = RetTrue
              <=> ~IsRaise(get_package_metadata(Discovered.cache, id).ret)

\* is_package_supported answered False for a package whose descriptor is
\* on the disk but was left out of a catalog that holds other packages
C28_Witness ==
    /\ last.op = "is_package_supported" /\ last.ret = RetFalse
    /\ last.pkg \in DOMAIN descriptors
    /\ ~WellFormed(descriptors[last.pkg])
    /\ registry # EmptyMap
    /\ IsRaise(get_package_metadata(metadataCache, last.pkg).ret)

----------------------------------------------------------------------------
(* Properties of the pyenv installer, checked under SpecInstaller *)

\* the profile carries none of the lines of the pyenv integration
NoPyenvLines(content) ==
    content = NoFile \/ \A i \in 1..Len(content) : content[i] \notin PyenvLines

\* C29: in every state that holds a pyenv installer, and whatever the
\* external commands answer, uninstall_software removes nothing unless its
\* safety check passes: when no usable Python is left (or the user
\* declines) it returns False and leaves the machine as it was; when the
\* check passes, the shell integration is removed, and the software is
\* removed only from a machine whose profile has lost the integration.
C29_SafetyCheckFirst ==
    inst.cls = "PyenvInstaller"
    => \A o \in RemoveOracle :
          LET r == Pyenv_uninstall_software(inst, world, host, o)
          IN  /\ ~o.python => (r.ret = RetFalse /\ r.w = world)
              /\ o.python => NoPyenvLines(r.w.files[ProfileOf(host)])
              /\ (SoftwareOn(world, "pyenv") /\ ~SoftwareOn(r.w, "pyenv"))
                     => NoPyenvLines(r.w.files[ProfileOf(host)])

----------------------------------------------------------------------------
(* More properties of the platform functions, checked under SpecPlatform *)

\* C30: the platform-support check and the platform detector agree on the
\* OS. On every host, the OS name that is_supported_on_current_platform
\* looks for in supports.os is the family _detect_os returns, so a
\* descriptor whose supports.os lists that family (and that does not
\* restrict the architecture) is reported as supported.
C30_SupportCheckUsesDetectedOs ==
    last.op = "is_supported_on_current_platform"
    => /\ OsMap(host.system) = _detect_os(host)
       /\ _detect_os(host) \in SeqToSet(last.args.os) => last.result = TRUE

====
